---- MODULE Spec2Model ----
(***************************************************************************)
(* Model of extension/unhash_ip.py: exhaustive SHA-1 preimage search over  *)
(* dotted-quad strings.  Phase 1 scans a list of likely first-octet ranges *)
(* sequentially, Phase 2 sweeps the whole first-octet space in chunks run  *)
(* by a process pool, and the orchestrator merges the returned maps.       *)
(*                                                                         *)
(* The key space is scaled down: OctetSpace stands for the 256 first-octet *)
(* values, TailSpace for the 256^3 values of the last three octets, and    *)
(* the digest is an arbitrary function from candidates to digests of which *)
(* only membership in the target table matters (0 = a digest that is not   *)
(* in the table).                                                          *)
(***************************************************************************)
EXTENDS Integers, Sequences, FiniteSets, TLC

\* ---- bounds of the model ----
OctetSpace == 4
TailSpace == 2
ChunkWidth == 1
NumTargets == 2
MaxHits == 2
MaxCpus == 2

VARIABLES sha1,          \* the digest of every candidate (fixed for the run)
          num_cpus,      \* multiprocessing.cpu_count()
          pc,            \* where main is
          idx,           \* position of the Phase 1 loop in common_ranges
          remaining,     \* the set object `remaining`
          all_results,   \* the dict `all_results`
          status,        \* per Phase 2 task: none, submitted, queued, running, done, yielded
          snapshot,      \* per Phase 2 task: the pickled `targets` argument
          future_result, \* per Phase 2 task: the map its future holds
          report,        \* the lines of the final report
          dispatched,    \* `remaining` as it was when the tasks were submitted
          last_call      \* the latest call of crack_range made by the main process

vars == <<sha1, num_cpus, pc, idx, remaining, all_results,
          status, snapshot, future_result, report, dispatched, last_call>>

\* ---- data ----
Octets == 0 .. (OctetSpace - 1)
Candidates == Octets \X (0 .. (TailSpace - 1))
TARGET_HASHES == 1 .. NumTargets
Digests == 0 .. NumTargets
EmptyMap == [h \in {} |-> <<0, 0>>]

common_ranges == << <<2, 3>>, <<0, 1>> >>

\* range(0, 256, 16) with end = min(start + 16, 256)
FirstOctets == 256
ChunkStep == 16
StartsOf(space, width) == {s \in 0 .. (space - 1) : s % width = 0}
\* variant: end = min(start + 16, 255)
EndOfNoLast(start, width, space) == IF start + width < space - 1 THEN start + width ELSE space - 1
EndOf(start, width, space) == IF start + width < space THEN start + width ELSE space
ChunksOf(space, width) == {<<s, EndOf(s, width, space)>> : s \in StartsOf(space, width)}

ChunkStarts == StartsOf(OctetSpace, ChunkWidth)
NumTasks == Cardinality(ChunkStarts)
Tasks == 0 .. (NumTasks - 1)
ChunkStart(k) == k * ChunkWidth
Min(a, b) == IF a < b THEN a ELSE b
\* variant: the last first-octet value is left out
ChunkEndNoLast(k) == Min(ChunkStart(k) + ChunkWidth, OctetSpace - 1)
ChunkEnd(k) == EndOf(ChunkStart(k), ChunkWidth, OctetSpace)

compute_hash(ip) == sha1[ip]

\* dict.update: entries of r replace entries of m with the same key
Update(m, r) ==
    [h \in (DOMAIN m) \cup (DOMAIN r) |-> IF h \in DOMAIN r THEN r[h] ELSE m[h]]

\* the j-th candidate (from 0) of the nested loops over [start, end)
NthCandidate(start, j) == <<start + (j \div TailSpace), j % TailSpace>>
RangeSize(start, end) == IF end > start THEN (end - start) * TailSpace ELSE 0

\* if len(results) == len(targets): return results
\* (variants: return at the first match; never return early)
NoEarlyExit(results, targets) == FALSE
EarlyExitOnFirst(results, targets) == Cardinality(DOMAIN results) >= 1
EarlyExit(results, targets) == Cardinality(DOMAIN results) = Cardinality(targets)

RECURSIVE ScanFrom(_, _, _, _, _)
ScanFrom(start, end, targets, j, results) ==
    IF j >= RangeSize(start, end)
    THEN [results |-> results, hashed |-> j, early |-> FALSE]
    ELSE LET ip == NthCandidate(start, j)
             h == compute_hash(ip)
         IN  IF h \in targets
             THEN LET r2 == Update(results, [x \in {h} |-> ip])
                  IN  IF EarlyExit(r2, targets)
                      THEN [results |-> r2, hashed |-> j + 1, early |-> TRUE]
                      ELSE ScanFrom(start, end, targets, j + 1, r2)
             ELSE ScanFrom(start, end, targets, j + 1, results)

CrackRun(start, end, targets) == ScanFrom(start, end, targets, 0, EmptyMap)
crack_range(start, end, targets) == CrackRun(start, end, targets).results

\* all_results.update(results)  (variant: all_results = results)
OverwriteResults(all, results) == results
MergeResults(all, results) == Update(all, results)

\* remaining -= set(results.keys())  (variant: the removal is missing)
KeepAll(rem, results) == rem
Subtract(rem, results) == rem \ DOMAIN results

CallOf(start, end, targets) ==
    LET run == CrackRun(start, end, targets)
    IN  [start |-> start, end |-> end, targets |-> targets,
         results |-> run.results, hashed |-> run.hashed]
NoCall == [start |-> 0, end |-> 0, targets |-> {}, results |-> EmptyMap, hashed |-> 0]

\* ---- initial state ----
\* The digest function of the run: at most MaxHits candidates hash into the
\* target table (two candidates may share a digest), all others hash to 0.
HitSets == {S \in SUBSET Candidates : Cardinality(S) <= MaxHits}
DigestOf(S, g) == [c \in Candidates |-> IF c \in S THEN g[c] ELSE 0]

Init ==
    /\ \E S \in HitSets : \E g \in [S -> TARGET_HASHES] : sha1 = DigestOf(S, g)
    /\ num_cpus \in 1 .. MaxCpus
    /\ pc = "phase1"
    /\ idx = 1
    /\ remaining = TARGET_HASHES
    /\ all_results = EmptyMap
    /\ status = [k \in Tasks |-> "none"]
    /\ snapshot = [k \in Tasks |-> {}]
    /\ future_result = [k \in Tasks |-> EmptyMap]
    /\ report = << >>
    /\ dispatched = {}
    /\ last_call = NoCall

PoolVars == <<status, snapshot, future_result, dispatched>>
MainVars == <<pc, idx, remaining, all_results, report>>
EnvVars == <<sha1, num_cpus>>

\* ---- Phase 1: for start, end in common_ranges ----
\* if not remaining: break  (variant: the test is missing)
PendingIgnored == TRUE
PendingLeft == remaining # {}

Phase1Scan ==
    /\ pc = "phase1"
    /\ idx <= Len(common_ranges)
    /\ PendingLeft
    /\ LET call == CallOf(common_ranges[idx][1], common_ranges[idx][2], remaining)
       IN  /\ last_call' = call
           /\ all_results' = MergeResults(all_results, call.results)
           /\ remaining' = Subtract(remaining, call.results)
    /\ idx' = idx + 1
    /\ UNCHANGED <<pc, report, PoolVars, EnvVars>>

Phase1End ==
    /\ pc = "phase1"
    /\ (idx > Len(common_ranges) \/ ~PendingLeft)
    /\ pc' = "phase2"
    /\ UNCHANGED <<idx, remaining, all_results, report, PoolVars, EnvVars, last_call>>

\* ---- Phase 2: if remaining ----
\* if remaining:  (variant: Phase 2 is run unconditionally)
AlwaysPhase2 == TRUE
NeedPhase2 == remaining # {}

SkipPhase2 ==
    /\ pc = "phase2"
    /\ ~NeedPhase2
    /\ pc' = "report"
    /\ UNCHANGED <<idx, remaining, all_results, report, PoolVars, EnvVars, last_call>>

\* The submit loop.  The pool's call queue holds num_cpus + 1 items: that
\* many work items are pickled right away, the others keep a reference to
\* the set object `remaining` until a slot of the call queue is free.
QueueSize == num_cpus + 1

\* executor.submit(crack_range, start, end, remaining): the third argument
\* (variant: the whole target table is handed to every task)
AllTargets == TARGET_HASHES
TaskTargets == remaining

Dispatch ==
    /\ pc = "phase2"
    /\ NeedPhase2
    /\ status' = [k \in Tasks |-> IF k < QueueSize THEN "queued" ELSE "submitted"]
    /\ snapshot' = [k \in Tasks |-> IF k < QueueSize THEN TaskTargets ELSE {}]
    /\ dispatched' = remaining
    /\ pc' = "merge"
    /\ UNCHANGED <<idx, remaining, all_results, report, future_result, EnvVars,
                   last_call>>

WithStatus(s) == {k \in Tasks : status[k] = s}
IsFirst(k, s) == \A j \in WithStatus(s) : k <= j

\* the pool's manager thread moves the next work item to the call queue;
\* its arguments are pickled now, so the task sees `remaining` as it is now
Enqueue(k) ==
    /\ status[k] = "submitted"
    /\ IsFirst(k, "submitted")
    /\ Cardinality(WithStatus("queued")) < QueueSize
    /\ status' = [status EXCEPT ![k] = "queued"]
    /\ snapshot' = [snapshot EXCEPT ![k] = TaskTargets]
    /\ UNCHANGED <<pc, idx, remaining, all_results, report, future_result,
                   dispatched, EnvVars, last_call>>

\* an idle worker process takes the head of the call queue
StartTask(k) ==
    /\ status[k] = "queued"
    /\ IsFirst(k, "queued")
    /\ Cardinality(WithStatus("running")) < num_cpus
    /\ status' = [status EXCEPT ![k] = "running"]
    /\ UNCHANGED <<pc, idx, remaining, all_results, report, snapshot,
                   future_result, dispatched, EnvVars, last_call>>

\* the worker's call of crack_range(start, end, <pickled targets>) returns
\* (variant: the worker also records its matches in the shared state)
FinishTaskShared(k) ==
    /\ status[k] = "running"
    /\ LET results == crack_range(ChunkStart(k), ChunkEnd(k), snapshot[k])
       IN  /\ future_result' = [future_result EXCEPT ![k] = results]
           /\ all_results' = Update(all_results, results)
           /\ remaining' = remaining \ DOMAIN results
    /\ status' = [status EXCEPT ![k] = "done"]
    /\ UNCHANGED <<pc, idx, report, snapshot, dispatched, EnvVars, last_call>>

FinishTask(k) ==
    /\ status[k] = "running"
    /\ future_result' = [future_result EXCEPT
                           ![k] = crack_range(ChunkStart(k), ChunkEnd(k), snapshot[k])]
    /\ status' = [status EXCEPT ![k] = "done"]
    /\ UNCHANGED <<pc, idx, remaining, all_results, report, snapshot,
                   dispatched, EnvVars, last_call>>

\* one iteration of `for future in as_completed(futures)`
Merge(k) ==
    /\ pc = "merge"
    /\ status[k] = "done"
    /\ LET results == future_result[k]
           rem2 == Subtract(remaining, results)
           st2 == [status EXCEPT ![k] = "yielded"]
       IN  /\ all_results' = MergeResults(all_results, results)
           /\ remaining' = rem2
           /\ status' = st2
           /\ pc' = IF rem2 = {} \/ (\A j \in Tasks : st2[j] = "yielded")
                    THEN "exit_with" ELSE "merge"
    /\ UNCHANGED <<idx, report, snapshot, future_result, dispatched, EnvVars, last_call>>

\* leaving the `with` block: executor.shutdown(wait=True) returns once every
\* submitted work item has run  (variant: once every result has been merged)
AllTasksYielded == \A k \in Tasks : status[k] = "yielded"
AllTasksFinished == \A k \in Tasks : status[k] \in {"done", "yielded"}

ExitPool ==
    /\ pc = "exit_with"
    /\ AllTasksFinished
    /\ pc' = "report"
    /\ UNCHANGED <<idx, remaining, all_results, report, PoolVars, EnvVars, last_call>>

\* ---- final report: for h, desc in TARGET_HASHES.items() ----
ReportLine(h) ==
    IF h \in DOMAIN all_results
    THEN [hash |-> h, kind |-> "RESOLVED", ip |-> all_results[h]]
    ELSE [hash |-> h, kind |-> "NOT FOUND", ip |-> <<0, 0>>]

\* (variant: the report leaves out the targets that were not found)
ResolvedOnly ==
    SelectSeq([n \in 1 .. NumTargets |-> ReportLine(n)], LAMBDA e : e.kind = "RESOLVED")
FinalReport == [n \in 1 .. NumTargets |-> ReportLine(n)]

Report ==
    /\ pc = "report"
    /\ report' = FinalReport
    /\ pc' = "done"
    /\ UNCHANGED <<idx, remaining, all_results, PoolVars, EnvVars, last_call>>

Next ==
    \/ Phase1Scan
    \/ Phase1End
    \/ SkipPhase2
    \/ Dispatch
    \/ \E k \in Tasks : Enqueue(k)
    \/ \E k \in Tasks : StartTask(k)
    \/ \E k \in Tasks : FinishTask(k)
    \/ \E k \in Tasks : Merge(k)
    \/ ExitPool
    \/ Report

Spec == Init /\ [][Next]_vars

FairSpec == Spec /\ WF_vars(Next)

\* ---- the scanner on its own: crack_range applied to any sub-range ----
UnitCall(start, end, targets) ==
    /\ last_call' = CallOf(start, end, targets)
    /\ UNCHANGED <<MainVars, PoolVars, EnvVars>>

ScanNext ==
    /\ last_call = NoCall
    /\ \E start \in Octets : \E end \in start .. OctetSpace :
          \E targets \in SUBSET TARGET_HASHES : UnitCall(start, end, targets)

ScanInit == Init /\ num_cpus = 1
ScanSpec == ScanInit /\ [][ScanNext]_vars

TypeOK ==
    /\ pc \in {"phase1", "phase2", "merge", "exit_with", "report", "done"}
    /\ remaining \subseteq TARGET_HASHES
    /\ DOMAIN all_results \subseteq TARGET_HASHES
    /\ \A k \in Tasks : snapshot[k] \subseteq TARGET_HASHES

\* ---- properties ----
Preimages(h) == {c \in Candidates : compute_hash(c) = h}
HasPreimage(h) == Preimages(h) # {}
InRange(start, end) == {c \in Candidates : start <= c[1] /\ c[1] < end}
ListedOctets ==
    {a \in Octets : \E n \in 1 .. Len(common_ranges) :
        common_ranges[n][1] <= a /\ a < common_ranges[n][2]}
Finished == pc \in {"report", "done"}
Dispatched == \A k \in Tasks : status[k] # "none"
NotDispatched == \A k \in Tasks : status[k] = "none"

\* C1: the pending set and the keys of the result map are disjoint and
\* together make up the whole target table, in every state of the run.
C1_Partition ==
    /\ remaining \cap DOMAIN all_results = {}
    /\ remaining \cup DOMAIN all_results = TARGET_HASHES

C1_Witness ==
    /\ pc = "merge"
    /\ remaining # {}
    /\ \E k \in Tasks : status[k] = "yielded" /\ DOMAIN future_result[k] # {}

\* C2: at the final report every target that has a preimage in the key space
\* is a key of the result map, and a target still pending has no preimage.
C2_FullCoverage ==
    Finished =>
        \A h \in TARGET_HASHES :
            /\ HasPreimage(h) => h \in DOMAIN all_results
            /\ h \in remaining => ~HasPreimage(h)

C2_Witness ==
    /\ pc = "done"
    /\ remaining # {}
    /\ \E h \in DOMAIN all_results : all_results[h][1] \notin ListedOctets
    /\ \E k \in Tasks : status[k] = "yielded"

\* C3 as stated: for a non-empty snapshot the returned map has only keys of
\* the snapshot, every entry is a preimage from the sub-range, and every
\* candidate X of the sub-range whose digest is in the snapshot is the
\* entry of its digest.
ScanSound(c) ==
    /\ DOMAIN c.results \subseteq c.targets
    /\ \A h \in DOMAIN c.results :
          /\ compute_hash(c.results[h]) = h
          /\ c.results[h] \in InRange(c.start, c.end)

C4_NoWaitForOutstanding ==
    (pc = "exit_with" /\ remaining = {}) => ENABLED ExitPool

\* The run in which the Phase 2 tasks complete in the order of submission.
RECURSIVE InOrderPhase1(_, _, _)
InOrderPhase1(n, rem, res) ==
    IF n > Len(common_ranges) \/ rem = {}
    THEN [rem |-> rem, res |-> res]
    ELSE LET r == crack_range(common_ranges[n][1], common_ranges[n][2], rem)
         IN  InOrderPhase1(n + 1, rem \ DOMAIN r, Update(res, r))

RECURSIVE InOrderPhase2(_, _, _, _)
InOrderPhase2(k, rem, res, snap) ==
    IF k >= NumTasks \/ rem = {}
    THEN res
    ELSE LET r == crack_range(ChunkStart(k), ChunkEnd(k), snap)
         IN  InOrderPhase2(k + 1, rem \ DOMAIN r, Update(res, r), snap)

InOrderResult ==
    LET p == InOrderPhase1(1, TARGET_HASHES, EmptyMap)
    IN  InOrderPhase2(0, p.rem, p.res, p.rem)

C7_ReportComplete ==
    pc = "done" =>
        /\ Len(report) = NumTargets
        /\ \A h \in TARGET_HASHES :
              /\ Cardinality({n \in 1 .. Len(report) : report[n].hash = h}) = 1
              /\ \A n \in 1 .. Len(report) : report[n].hash = h =>
                    IF h \in DOMAIN all_results
                    THEN report[n].kind = "RESOLVED" /\ report[n].ip = all_results[h]
                    ELSE report[n].kind = "NOT FOUND"

C7_Witness ==
    /\ pc = "done"
    /\ \E n \in 1 .. Len(report) : report[n].kind = "NOT FOUND"
    /\ \E n \in 1 .. Len(report) : report[n].kind = "RESOLVED"

\* C8: no task is dispatched when every target has a preimage in a listed
\* range, every chunk is dispatched when some target has none, and no
\* listed range is scanned once the pending set is empty.
AllInListed ==
    \A h \in TARGET_HASHES : \E c \in Preimages(h) : c[1] \in ListedOctets

C8_Phase2IffPending ==
    /\ [](AllInListed => NotDispatched)
    /\ [](~AllInListed /\ pc \notin {"phase1", "phase2"} => Dispatched)
    /\ [](pc \in {"phase1", "phase2"} => NotDispatched)
    /\ [][remaining = {} => idx' = idx]_vars

C8_Witness ==
    /\ pc = "done"
    /\ NotDispatched
    /\ idx = 2
    /\ DOMAIN all_results = TARGET_HASHES

\* C9: with the workers and the orchestrator scheduled fairly, every run
\* reaches the end of the final report.
C9_Terminates == <>(pc = "done")

\* C9, the same by a measure: until the report is out some step is possible,
\* and every step lowers the number of steps that are left.

StatusRank(st) ==
    CASE st = "none" -> 5 [] st = "submitted" -> 4 [] st = "queued" -> 3
      [] st = "running" -> 2 [] st = "done" -> 1 [] OTHER -> 0
PcRank ==
    CASE pc = "phase1" -> 5 [] pc = "phase2" -> 4 [] pc = "merge" -> 3
      [] pc = "exit_with" -> 2 [] pc = "report" -> 1 [] OTHER -> 0
RECURSIVE SumRank(_)
SumRank(k) == IF k >= NumTasks THEN 0 ELSE StatusRank(status[k]) + SumRank(k + 1)
StepsLeft == (Len(common_ranges) + 1 - idx) + PcRank + SumRank(0)

C9_Progress ==
    /\ [](pc = "done" \/ ENABLED Next)
    /\ [][StepsLeft' < StepsLeft]_vars

C9_Witness ==
    /\ pc = "done"
    /\ remaining # {}
    /\ Dispatched

\* C10: every Phase 2 task scans against the pending set as it was when the
\* tasks were submitted.
C10_SameSnapshot ==
    \A k \in Tasks :
        status[k] \in {"queued", "running", "done", "yielded"} => snapshot[k] = dispatched

\* C11: Phase 1 scans the listed ranges one at a time in listed order, each
\* against the pending set as the previous scan left it, and starts no scan
\* once the pending set is empty.
C11_Phase1InOrder ==
    [][idx' # idx =>
          /\ pc = "phase1" /\ pc' = "phase1"
          /\ idx \in 1 .. Len(common_ranges) /\ idx' = idx + 1
          /\ remaining # {}
          /\ last_call'.start = common_ranges[idx][1]
          /\ last_call'.end = common_ranges[idx][2]
          /\ last_call'.targets = remaining
          /\ remaining' = remaining \ DOMAIN last_call'.results]_vars

C11_Witness ==
    /\ pc = "phase1"
    /\ idx = 3
    /\ last_call.start = common_ranges[2][1]
    /\ last_call.targets # TARGET_HASHES
    /\ remaining = {}

\* C12: for a non-empty snapshot crack_range hashes the candidates up to and
\* including the first one at which every digest of the snapshot has been
\* seen, returns there with all of the snapshot as keys, and hashes the
\* whole sub-range when there is no such candidate.
\* (the digests seen among the first j candidates only grow with j, so the
\* first complete j is the one whose predecessor is not complete)
SeenBy(start, j, targets) ==
    {compute_hash(NthCandidate(start, i)) : i \in 0 .. (j - 1)} \cap targets

C12_StopsAtLastMatch ==
    last_call.targets # {} =>
        LET start == last_call.start
            targets == last_call.targets
            size == RangeSize(start, last_call.end)
            hashed == last_call.hashed
        IN  IF SeenBy(start, size, targets) = targets
            THEN /\ hashed \in 1 .. size
                 /\ SeenBy(start, hashed, targets) = targets
                 /\ SeenBy(start, hashed - 1, targets) # targets
                 /\ DOMAIN last_call.results = targets
            ELSE hashed = size

C12_Witness ==
    /\ Cardinality(last_call.targets) = 1
    /\ DOMAIN last_call.results = last_call.targets
    /\ last_call.hashed >= 1
    /\ last_call.hashed < RangeSize(last_call.start, last_call.end)

\* C13: the chunks of Phase 2 are 16 half-open sub-ranges of width 16,
\* pairwise disjoint, whose union is [0,256); in the run every first-octet
\* value, listed or not, belongs to exactly one submitted task.
Covers(chunk, a) == chunk[1] <= a /\ a < chunk[2]

PhaseTwoChunks == ChunksOf(FirstOctets, ChunkStep)
SixteenOfSixteen ==
    /\ Cardinality(PhaseTwoChunks) = 16
    /\ \A c \in PhaseTwoChunks : c[2] - c[1] = 16 /\ 0 <= c[1] /\ c[2] <= FirstOctets
    /\ \A a \in 0 .. (FirstOctets - 1) :
          Cardinality({c \in PhaseTwoChunks : Covers(c, a)}) = 1

C13_Partition ==
    /\ SixteenOfSixteen
    /\ (\E k \in Tasks : status[k] # "none") =>
          \A a \in Octets :
              Cardinality({k \in Tasks : status[k] # "none"
                              /\ Covers(<<ChunkStart(k), ChunkEnd(k)>>, a)}) = 1

C13_Witness ==
    /\ pc = "merge"
    /\ Dispatched
    /\ NumTasks > 1
    /\ \E k \in Tasks : status[k] = "yielded"

\* C14: of the candidates of the sub-range that have the same digest of the
\* snapshot, the one enumerated first is the entry of the returned map.
PositionIn(start, c) == (c[1] - start) * TailSpace + c[2]

MergeOfCall ==
    /\ idx' = idx + 1
    /\ last_call'.targets = remaining
    /\ all_results' = Update(all_results, last_call'.results)
    /\ remaining' = remaining \ DOMAIN last_call'.results
MergeOfTask(k) ==
    /\ status[k] = "done" /\ status'[k] = "yielded"
    /\ all_results' = Update(all_results, future_result[k])
    /\ remaining' = remaining \ DOMAIN future_result[k]

C15_OnlyOrchestratorWrites ==
    [][/\ (remaining' # remaining \/ all_results' # all_results) =>
             (MergeOfCall \/ \E k \in Tasks : MergeOfTask(k))
       /\ \A k \in Tasks :
             /\ status[k] = "running" /\ status'[k] = "done" =>
                   /\ remaining' = remaining /\ all_results' = all_results
                   /\ snapshot' = snapshot /\ MainVars' = MainVars
                   /\ \A j \in Tasks \ {k} : future_result'[j] = future_result[j]
             /\ future_result'[k] # future_result[k] =>
                   status[k] = "running" /\ status'[k] = "done"]_vars

C15_Witness ==
    /\ pc = "merge"
    /\ \E k \in Tasks : status[k] = "yielded" /\ DOMAIN future_result[k] # {}
    /\ \E k \in Tasks : status[k] = "done" /\ DOMAIN future_result[k] # {}

\* C16: the pending set starts as the key set of the target table and no
\* step adds a digest to it; no step removes a key from the result map.
C16_Monotone ==
    /\ remaining = TARGET_HASHES
    /\ [][/\ remaining' \subseteq remaining
          /\ DOMAIN all_results \subseteq DOMAIN all_results']_vars

C16_Witness ==
    /\ pc = "merge"
    /\ remaining # {} /\ remaining # TARGET_HASHES
    /\ remaining # dispatched

\* C17: the pending set, which is what a scan is given, never holds a key of
\* the result map; a Phase 1 scan was given and returns no digest resolved
\* before it; the target set of a Phase 2 task holds no digest that was
\* resolved when the tasks were submitted, and a task returns only digests
\* of its target set.
ResolvedAtDispatch == TARGET_HASHES \ dispatched

C17_FreshTargets ==
    /\ remaining \cap DOMAIN all_results = {}
    /\ (pc = "phase1" /\ last_call # NoCall) =>
          /\ DOMAIN last_call.results \subseteq last_call.targets
          /\ last_call.targets \cap (DOMAIN all_results \ DOMAIN last_call.results) = {}
    /\ Dispatched =>
          /\ ResolvedAtDispatch \subseteq DOMAIN all_results
          /\ \A k \in Tasks :
                /\ snapshot[k] \cap ResolvedAtDispatch = {}
                /\ DOMAIN future_result[k] \subseteq snapshot[k]

C17_Witness ==
    /\ ResolvedAtDispatch # {}
    /\ \E k \in Tasks :
          /\ status[k] = "done"
          /\ snapshot[k] = dispatched
          /\ DOMAIN future_result[k] # {}

\* C18: every scan that runs, in Phase 1 or as a Phase 2 task, has a
\* non-empty target set.
C18_NeverEmptyTargets ==
    /\ last_call # NoCall => last_call.targets # {}
    /\ \A k \in Tasks : status[k] \in {"running", "done", "yielded"} => snapshot[k] # {}
====
